---- MODULE Spec2Model ----
(***************************************************************************)
(* FreeLingvo: a dictionary lookup over TEI XML entries.                   *)
(*                                                                         *)
(* parsing_and_formatting.py is modelled function by function.  A Python   *)
(* str is a sequence of characters, each character a one-element token;    *)
(* None is a value distinct from every str.  An Element is a record        *)
(*   [tag, text, tail, children]                                           *)
(* whose tag is the qualified name [ns, name], name being a sequence of    *)
(* characters so that the regular expressions of element_to_text are       *)
(* evaluated on it.                                                        *)
(*                                                                         *)
(* mainwindow.py is modelled as two event loops: the worker thread runs    *)
(* the slots of Worker, the main thread runs the slots of MainWindow, and  *)
(* signals between them are queued.                                        *)
(***************************************************************************)
EXTENDS Integers, Sequences, FiniteSets, TLC

(***************************************************************************)
(* Bounds of the model.                                                    *)
(***************************************************************************)
MaxEntries == 2

MaxQueue == 1

MaxLookups == 2

(***************************************************************************)
(* str                                                                     *)
(***************************************************************************)
None == <<"None">>

\* str.isspace for one character: " " and "\t" stand for the whitespace class
IsSpace(c) == c \in {" ", "\t"}

RECURSIVE lstrip(_)
lstrip(s) ==
    IF s = <<>> THEN <<>>
    ELSE IF IsSpace(Head(s)) THEN lstrip(Tail(s))
    ELSE s

RECURSIVE rstrip(_)
rstrip(s) ==
    IF s = <<>> THEN <<>>
    ELSE IF IsSpace(s[Len(s)]) THEN rstrip(SubSeq(s, 1, Len(s) - 1))
    ELSE s

strip(s) == rstrip(lstrip(s))

startswith(s, p) == Len(s) >= Len(p) /\ SubSeq(s, 1, Len(p)) = p

endswith(s, p) == Len(s) >= Len(p) /\ SubSeq(s, Len(s) - Len(p) + 1, Len(s)) = p

RECURSIVE join(_, _)
join(sep, parts) ==
    IF parts = <<>> THEN <<>>
    ELSE IF Len(parts) = 1 THEN parts[1]
    ELSE parts[1] \o sep \o join(sep, Tail(parts))

\* str.casefold on the alphabet of the model: the upper-case letters fold
casefold_char(c) ==
    CASE c = "R" -> "r"
      [] c = "D" -> "d"
      [] OTHER -> c

casefold(s) == [i \in 1..Len(s) |-> casefold_char(s[i])]

\* unicodedata.normalize('NFC', s): "e" followed by the combining acute
\* accent composes to the single character e-acute
RECURSIVE NFC(_)
NFC(s) ==
    IF Len(s) < 2 THEN s
    ELSE IF s[1] = "e" /\ s[2] = "comb_acute"
         THEN <<"e_acute">> \o NFC(SubSeq(s, 3, Len(s)))
    ELSE <<s[1]>> \o NFC(Tail(s))

\* re.split(r'\s+', s): an empty string before a leading run of whitespace
\* and after a trailing one, and [''] for the empty string
RECURSIVE re_split(_)
re_split(s) ==
    IF s = <<>> THEN << <<>> >>
    ELSE IF IsSpace(Head(s)) THEN << <<>> >> \o re_split(lstrip(Tail(s)))
    ELSE LET r == re_split(Tail(s))
         IN  << <<Head(s)>> \o Head(r) >> \o Tail(r)

(***************************************************************************)
(* normalize_nfc, parse_sentence                                           *)
(***************************************************************************)
\* None has no strip: AttributeError is swallowed and None is returned
normalize_nfc(text) ==
    IF text = None THEN None
    ELSE NFC(casefold(strip(text)))

\* the slices of the comprehension for one start index i (0-based),
\* j running from len(words) down to i + 1
RECURSIVE combinations_from(_, _, _)
combinations_from(words, i, j) ==
    IF j <= i THEN <<>>
    ELSE << join(<<" ">>, SubSeq(words, i + 1, j)) >>
         \o combinations_from(words, i, j - 1)

RECURSIVE combinations_loop(_, _)
combinations_loop(words, i) ==
    IF i >= Len(words) THEN <<>>
    ELSE combinations_from(words, i, Len(words))
         \o combinations_loop(words, i + 1)

parse_sentence(sentence) ==
    LET split == re_split(sentence)
        words == [k \in 1..Len(split) |-> normalize_nfc(split[k])]
    IN  combinations_loop(words, 0)

(***************************************************************************)
(* Elements                                                                *)
(***************************************************************************)
\* ns = {'xmlns': 'http://www.tei-c.org/ns/1.0'}
ns == "http://www.tei-c.org/ns/1.0"

simple_elements ==
    { <<"o", "r", "t", "h">>,
      <<"p", "r", "o", "n">>,
      <<"h", "y", "p", "h">>,
      <<"s", "y", "l", "l">>,
      <<"s", "t", "r", "e", "s", "s">>,
      <<"g", "r", "a", "m">>,
      <<"g", "e", "n">>,
      <<"n", "u", "m", "b", "e", "r">>,
      <<"c", "a", "s", "e">>,
      <<"p", "e", "r">>,
      <<"t", "s", "n">>,
      <<"m", "o", "o", "d">>,
      <<"i", "T", "y", "p", "e">>,
      <<"p", "o", "s">>,
      <<"s", "u", "b", "c">>,
      <<"c", "o", "l", "l", "o", "c">>,
      <<"q", "u", "o", "t", "e">>,
      <<"l", "a", "n", "g">>,
      <<"d", "a", "t", "e">>,
      <<"m", "e", "n", "t", "i", "o", "n", "e", "d">>,
      <<"g", "l", "o", "s", "s">>,
      <<"r", "e", "f">>,
      <<"p", "t", "r">>,
      <<"u", "s", "g">>,
      <<"d", "e", "f">>,
      <<"l", "b", "l">>,
      <<"n", "o", "t", "e">>,
      <<"o", "R", "e", "f">>,
      <<"p", "R", "e", "f">> }

complex_elements ==
    { <<"h", "o", "m">>,
      <<"f", "o", "r", "m">>,
      <<"s", "e", "n", "s", "e">>,
      <<"e", "t", "y", "m">>,
      <<"r", "e">>,
      <<"d", "i", "c", "t", "S", "c", "r", "a", "p">> }

\* re.match(r'(\{.*\})?(pron|hyph|syll|stress)', tag): the optional group
\* takes the namespace, the alternatives match a PREFIX of the local name
matches_form_tags(tag) ==
    \/ startswith(tag.name, <<"p", "r", "o", "n">>)
    \/ startswith(tag.name, <<"h", "y", "p", "h">>)
    \/ startswith(tag.name, <<"s", "y", "l", "l">>)
    \/ startswith(tag.name, <<"s", "t", "r", "e", "s", "s">>)

\* re.match(r'(\{.*\})?(gramGrp|re|etym|dictScrap)', tag), a prefix as well
matches_group_tags(tag) ==
    \/ startswith(tag.name, <<"g", "r", "a", "m", "G", "r", "p">>)
    \/ startswith(tag.name, <<"r", "e">>)
    \/ startswith(tag.name, <<"e", "t", "y", "m">>)
    \/ startswith(tag.name, <<"d", "i", "c", "t", "S", "c", "r", "a", "p">>)

\* \w of the regular expressions: an XML name may also hold "-" and "."
IsWordChar(c) == c \notin {"-", "."}

\* re.match(r'(\{.*\})?(\w+)', tag).group(2): the longest run of word
\* characters at the start of the local name
RECURSIVE local_name(_)
local_name(name) ==
    IF name = <<>> THEN <<>>
    ELSE IF IsWordChar(Head(name)) THEN <<Head(name)>> \o local_name(Tail(name))
    ELSE <<>>

classify_qualified(tag) ==
    IF tag.ns # "" THEN "other"
    ELSE IF local_name(tag.name) \in simple_elements THEN "simple"
    ELSE IF local_name(tag.name) \in complex_elements THEN "complex"
    ELSE "other"

\* the three branches of the text-building pass
classify(tag) ==
    IF local_name(tag.name) \in simple_elements THEN "simple"
    ELSE IF local_name(tag.name) \in complex_elements THEN "complex"
    ELSE "other"

preformat_unguarded(element) ==
    IF matches_form_tags(element.tag)
    THEN IF element.text # None
         THEN [element EXCEPT !.text = <<"[">> \o element.text \o <<"]">>]
         ELSE element
    ELSE IF matches_group_tags(element.tag)
    THEN [element EXCEPT
             !.text = IF element.text = None THEN <<"(">>
                      ELSE <<"(">> \o element.text,
             !.tail = IF element.tail = None THEN <<")">>
                      ELSE element.tail \o <<")">>]
    ELSE element

\* the pre-formatting pass: writes element.text and element.tail in place
preformat(element) ==
    IF matches_form_tags(element.tag)
    THEN IF /\ element.text # None
            /\ ~startswith(element.text, <<"[">>)
            /\ ~endswith(element.text, <<"]">>)
         THEN [element EXCEPT !.text = <<"[">> \o element.text \o <<"]">>]
         ELSE element
    ELSE IF matches_group_tags(element.tag)
    THEN LET text == IF element.text = None THEN <<"(">>
                     ELSE IF ~startswith(element.text, <<"(">>)
                          THEN <<"(">> \o element.text
                     ELSE element.text
             tail == IF element.tail = None THEN <<")">>
                     ELSE IF ~endswith(element.tail, <<")">>)
                          THEN element.tail \o <<")">>
                     ELSE element.tail
         IN  [element EXCEPT !.text = text, !.tail = tail]
    ELSE element

\* Returns the text and the element as the call leaves it: the call writes
\* to the element and to its descendants.
RECURSIVE element_to_text(_)
element_to_text(element) ==
    LET pre == preformat(element)
        kind == classify(pre.tag)
        subs == [i \in 1..Len(pre.children) |-> element_to_text(pre.children[i])]
        subelements == [i \in 1..Len(subs) |-> subs[i].text]
        lead == IF pre.text = None THEN <<>> ELSE strip(pre.text)
        trail == IF pre.tail = None THEN <<>> ELSE strip(pre.tail)
        text == CASE kind = "simple" ->
                       lead \o join(<<" ">>, subelements) \o trail
                  [] kind = "complex" ->
                       <<"<", "b", "r", "/", ">">> \o lead
                       \o join(<<",", " ">>, subelements) \o trail
                  [] OTHER ->
                       lead \o join(<<",", " ">>, subelements) \o trail
    IN  [text |-> text,
         element |-> [pre EXCEPT !.children =
                         [i \in 1..Len(subs) |-> subs[i].element]]]

\* entry.findall('.//xmlns:<name>', ns): the descendants of the entry, the
\* entry itself excluded, in document order
RECURSIVE iter_all(_), iter_children(_)
iter_all(element) == <<element>> \o iter_children(element.children)

iter_children(children) ==
    IF children = <<>> THEN <<>>
    ELSE iter_all(Head(children)) \o iter_children(Tail(children))

is_tei(element, name) == element.tag = [ns |-> ns, name |-> name]

findall(entry, name) ==
    SelectSeq(Tail(iter_all(entry)), LAMBDA e : is_tei(e, name))

(***************************************************************************)
(* have_matches, highlight_orths_and_quoutes, translate                    *)
(***************************************************************************)
orth == <<"o", "r", "t", "h">>

quote == <<"q", "u", "o", "t", "e">>

\* the for loop over forms; falling off its end returns None, which is falsy
RECURSIVE any_form_in(_, _)
any_form_in(forms, words) ==
    IF forms = <<>> THEN FALSE
    ELSE IF \E k \in 1..Len(words) : words[k] = normalize_nfc(Head(forms).text)
         THEN TRUE
    ELSE any_form_in(Tail(forms), words)

have_matches_orth_only(entry, words) ==
    any_form_in(findall(entry, orth), words)

have_matches(entry, words) ==
    any_form_in(findall(entry, orth) \o findall(entry, quote), words)

\* "if element.text": None and '' are falsy
truthy(text) == text # None /\ text # <<>>

\* the writes of the loop over elements, applied where the elements sit in
\* the tree; the entry itself is not among the elements found
RECURSIVE highlight_below(_)
highlight_below(element) ==
    [element EXCEPT !.children =
        [i \in 1..Len(element.children) |->
            LET child == highlight_below(element.children[i])
            IN  IF (is_tei(child, orth) \/ is_tei(child, quote))
                   /\ truthy(child.text)
                THEN [child EXCEPT !.text =
                         <<"<", "b", ">">> \o child.text \o <<"<", "/", "b", ">">>]
                ELSE child]]

highlight_orths_and_quoutes(entry) == highlight_below(entry)

\* copy.deepcopy(entry): an object of its own, equal to the entry
deepcopy_alias(entry) == [shared |-> TRUE, element |-> entry]

deepcopy(entry) == [shared |-> FALSE, element |-> entry]

\* Nesting depth of an element. element_to_text and deepcopy recurse once
\* per level, and the interpreter raises RecursionError past its limit.
RECURSIVE depth(_), deepest(_)
depth(element) == 1 + deepest(element.children)

deepest(children) ==
    IF children = <<>> THEN 0
    ELSE LET d == depth(Head(children))
             r == deepest(Tail(children))
         IN  IF d > r THEN d ELSE r

\* The limit of the interpreter (1000 frames by default), scaled to the
\* depth of the entries of the model: E_deep lies past it, the others within.
RecursionLimit == 3

RecursionError(entry) == depth(entry) > RecursionLimit

\* The generator of matches and the for loop over it, entry by entry from
\* index i (1-based): returns whether an exception left translate, the
\* translations, and the entries as the call leaves them.
RECURSIVE translate_loop(_, _, _, _)
translate_loop(entries, words, i, translations) ==
    IF i > Len(entries)
    THEN [raised |-> FALSE, translations |-> translations, entries |-> entries]
    ELSE IF ~have_matches(entries[i], words)
    THEN translate_loop(entries, words, i + 1, translations)
    ELSE IF RecursionError(entries[i])
    THEN [raised |-> TRUE, translations |-> <<>>, entries |-> entries]
    ELSE LET match == deepcopy(entries[i])
             highlighted == highlight_orths_and_quoutes(match.element)
             rendered == element_to_text(highlighted)
             after == IF match.shared
                      THEN [entries EXCEPT ![i] = rendered.element]
                      ELSE entries
         IN  translate_loop(after, words, i + 1,
                            Append(translations, rendered.text))

translate_reversed(sentence, entries) ==
    LET result == translate_loop(entries, parse_sentence(sentence), 1, <<>>)
        n == Len(result.translations)
    IN  [result EXCEPT !.translations =
            [k \in 1..n |-> result.translations[n + 1 - k]]]

translate(sentence, entries) ==
    translate_loop(entries, parse_sentence(sentence), 1, <<>>)

(***************************************************************************)
(* The dictionary entries and the sentences of the model.                  *)
(***************************************************************************)
Tag(name) == [ns |-> ns, name |-> name]

Element(name, text, children, tail) ==
    [tag |-> Tag(name), text |-> text, tail |-> tail, children |-> children]

Leaf(name, text) == Element(name, text, <<>>, None)

Group(name, children) == Element(name, None, children, None)

entry == <<"e", "n", "t", "r", "y">>

form == <<"f", "o", "r", "m">>

sense == <<"s", "e", "n", "s", "e">>

gloss == <<"g", "l", "o", "s", "s">>

\* <entry><form><orth>run</orth><pron>r</pron></form>
\*        <sense><gloss>go</gloss></sense></entry>
E_run ==
    Group(entry, << Group(form, << Leaf(orth, <<"r", "u", "n">>), Leaf(<<"p", "r", "o", "n">>, <<"r">>) >>),
                    Group(sense, << Leaf(gloss, <<"g", "o">>) >>) >>)

\* <entry><form><orth>Dog</orth></form>
\*        <sense><gloss>&lt;i&gt;</gloss></sense></entry>
E_dog ==
    Group(entry, << Group(form, << Leaf(orth, <<"D", "o", "g">>) >>),
                    Group(sense, << Leaf(gloss, <<"<", "i", ">">>) >>) >>)

\* <entry><form><orth> </orth></form></entry>
E_blank == Group(entry, << Group(form, << Leaf(orth, <<" ">>) >>) >>)

\* <entry><form><orth/></form><gramGrp><pos>n</pos></gramGrp></entry>
E_absent ==
    Group(entry, << Group(form, << Leaf(orth, None) >>),
                    Group(<<"g", "r", "a", "m", "G", "r", "p">>, << Leaf(<<"p", "o", "s">>, <<"n">>) >>) >>)

\* <entry><sense><gloss>run</gloss></sense></entry>
E_plain == Group(entry, << Group(sense, << Leaf(gloss, <<"r", "u", "n">>) >>) >>)

\* <entry><form><orth>run</orth></form>
\*        <sense><sense><gloss>go</gloss></sense></sense></entry>
E_deep ==
    Group(entry, << Group(form, << Leaf(orth, <<"r", "u", "n">>) >>),
                    Group(sense, << Group(sense, << Leaf(gloss, <<"g", "o">>) >>) >>) >>)

\* <entry><cit><quote>run dog</quote></cit><ref>dog</ref></entry>
E_phrase ==
    Group(entry, << Group(<<"c", "i", "t">>, << Leaf(quote, <<"r", "u", "n", " ", "d", "o", "g">>) >>),
                    Leaf(<<"r", "e", "f">>, <<"d", "o", "g">>) >>)

EntryPool ==
    { E_run, E_dog, E_blank, E_absent, E_plain, E_deep, E_phrase }

S_empty == <<>>

S_run == <<"r", "u", "n">>

S_lead == <<" ", "r", "u", "n">>

S_trail == <<"d", "o", "g", " ">>

S_three == <<"i", " ", "r", "u", "n", " ", "d", "o", "g">>

S_gap == <<"r", "u", "n", " ", "\t", "d", "o", "g">>

S_Dog == <<"D", "o", "g">>

S_dogs == <<"d", "o", "g", "s">>

Sentences ==
    { S_empty, S_run, S_lead, S_trail, S_three, S_gap, S_Dog, S_dogs }

(***************************************************************************)
(* State                                                                   *)
(***************************************************************************)
VARIABLES
    entries,            \* the entries handed to the functions of the core
    entries0,           \* the same entries as they were handed over
    call,               \* the last call of a function of the core
    searchText,         \* MainWindow.searchText.text()
    dictsCombo,         \* MainWindow.dictsCombo.currentText()
    controlsEnabled,    \* translateButton and dictsCombo: isEnabled()
    overrideCursor,     \* depth of the stack of override cursors
    translationsBrowser,\* what showTranslations inserted last
    loadedEntries,      \* Worker.loadedEntries
    workerQueue,        \* slot calls queued to the worker thread
    mainQueue,          \* signals of the worker queued to the main thread
    log,                \* records written by logger.exception
    uncaught,           \* an exception has left a slot of the worker
    lookups,            \* number of lookups requested so far
    lastLookup,         \* what the last run of findTranslations did
    shown               \* the lookups whose translations reached the browser

coreVars == <<entries, entries0, call>>

guiVars ==
    <<searchText, dictsCombo, controlsEnabled, overrideCursor,
      translationsBrowser, loadedEntries, workerQueue, mainQueue, log,
      uncaught, lookups, lastLookup, shown>>

vars == <<coreVars, guiVars>>

(***************************************************************************)
(* Calls of the functions of parsing_and_formatting.py                     *)
(***************************************************************************)
NoCall ==
    [op |-> "none", sentence |-> <<>>, words |-> <<>>, index |-> 0,
     combinations |-> <<>>, matched |-> FALSE, raised |-> FALSE,
     translations |-> <<>>, text |-> <<>>, renders |-> 0]

\* word lists handed to have_matches: the empty list, single words, and
\* the combinations of two sentences
WordLists ==
    { <<>>, << <<"d", "o", "g">> >>, << <<"d", "o", "g", "s">> >>,
      parse_sentence(S_three), parse_sentence(S_lead) }

RECURSIVE SeqsUpTo(_, _)
SeqsUpTo(S, n) ==
    IF n = 0 THEN { <<>> }
    ELSE LET shorter == SeqsUpTo(S, n - 1)
         IN  shorter \cup { Append(q, x) : q \in shorter, x \in S }

Call_parse_sentence(sentence) ==
    /\ call' = [NoCall EXCEPT !.op = "parse_sentence",
                              !.sentence = sentence,
                              !.combinations = parse_sentence(sentence)]
    /\ UNCHANGED <<entries, entries0, guiVars>>

Call_have_matches(i, words) ==
    /\ i \in 1..Len(entries)
    /\ call' = [NoCall EXCEPT !.op = "have_matches",
                              !.index = i,
                              !.words = words,
                              !.matched = have_matches(entries[i], words)]
    /\ UNCHANGED <<entries, entries0, guiVars>>

Call_translate(sentence) ==
    LET result == translate(sentence, entries)
    IN  /\ call' = [NoCall EXCEPT !.op = "translate",
                                  !.sentence = sentence,
                                  !.raised = result.raised,
                                  !.translations = result.translations]
        /\ entries' = result.entries
        /\ UNCHANGED <<entries0, guiVars>>

(***************************************************************************)
(* Calls of element_to_text on single elements                             *)
(***************************************************************************)
MaxRenders == 2

pron == <<"p", "r", "o", "n">>

ref == <<"r", "e", "f">>

etym == <<"e", "t", "y", "m">>

gramGrp == <<"g", "r", "a", "m", "G", "r", "p">>

cit == <<"c", "i", "t">>

PoolTags ==
    { Tag(sense), Tag(etym), Tag(pron), Tag(ref), Tag(orth), Tag(gramGrp),
      Tag(cit), [ns |-> "", name |-> sense] }

PoolTexts == { None, <<"k">>, <<"[", "k">>, <<" ", "(", "k">> }

PoolTails == { None, <<"t">>, <<"t", ")", " ">> }

PoolChildren ==
    { <<>>,
      << Leaf(gloss, <<"a">>), Leaf(gloss, <<"b">>) >>,
      << Leaf(pron, <<"k">>), Element(etym, None, <<>>, <<"t">>) >> }

\* elements as a TEI file can hold them below an entry
ElementPool ==
    { [tag |-> tag, text |-> text, tail |-> tail, children |-> children] :
        tag \in PoolTags, text \in PoolTexts, tail \in PoolTails,
        children \in PoolChildren }

\* element_to_text(entries[i]): the call writes to the element it is given
Call_element_to_text(i) ==
    /\ i \in 1..Len(entries)
    /\ LET renders == IF call.op = "element_to_text" /\ call.index = i
                      THEN call.renders ELSE 0
           result == element_to_text(entries[i])
       IN  /\ renders < MaxRenders
           /\ call' = [NoCall EXCEPT !.op = "element_to_text",
                                     !.index = i,
                                     !.text = result.text,
                                     !.renders = renders + 1]
           /\ entries' = [entries EXCEPT ![i] = result.element]
    /\ UNCHANGED <<entries0, guiVars>>

(***************************************************************************)
(* mainwindow.py                                                           *)
(***************************************************************************)
\* os.listdir of the dictionaries directory, ".tei" removed
dictNames == <<"plain", "deep", "odd">>

\* load_entries of the file of a dictionary
load_entries(dictName) ==
    CASE dictName = "plain" -> <<E_run, E_phrase>>
      [] dictName = "deep" -> <<E_run, E_deep>>
      [] dictName = "odd" -> <<E_blank, E_dog>>

\* what the user types into the search field
TypedSentences == { S_empty, S_run }

SlotCall(slot, dictName, id, typed) ==
    [slot |-> slot, dictName |-> dictName, id |-> id, typed |-> typed]

Signal(name, id, translations) ==
    [signal |-> name, id |-> id, translations |-> translations]

NoLookup ==
    [id |-> 0, typed |-> <<>>, searchedText |-> <<>>, entries |-> <<>>,
     raised |-> FALSE, translations |-> <<>>, emitted |-> <<>>]

\* MainWindow.__init__: setCurrentIndex(1) emits currentIndexChanged, which
\* is connected to Worker.loadDict
InitGui ==
    /\ searchText = <<>>
    /\ dictsCombo = dictNames[2]
    /\ controlsEnabled = TRUE
    /\ overrideCursor = 0
    /\ translationsBrowser =
           [kind |-> "empty", id |-> 0, html |-> <<>>, text |-> <<>>]
    /\ loadedEntries = <<>>
    /\ workerQueue = << SlotCall("loadDict", dictNames[2], 0, <<>>) >>
    /\ mainQueue = <<>>
    /\ log = <<>>
    /\ uncaught = FALSE
    /\ lookups = 0
    /\ lastLookup = NoLookup
    /\ shown = {}

InitCoreIdle ==
    /\ entries = <<>>
    /\ entries0 = <<>>
    /\ call = NoCall

\* the user edits the search field
EditText(s) ==
    /\ s # searchText
    /\ searchText' = s
    /\ UNCHANGED <<dictsCombo, controlsEnabled, overrideCursor,
                   translationsBrowser, loadedEntries, workerQueue, mainQueue,
                   log, uncaught, lookups, lastLookup, shown, coreVars>>

RequestLookup ==
    /\ Len(workerQueue) < MaxQueue
    /\ lookups < MaxLookups
    /\ lookups' = lookups + 1
    /\ workerQueue' = Append(workerQueue,
           SlotCall("findTranslations", dictsCombo, lookups + 1, searchText))
    /\ UNCHANGED <<searchText, dictsCombo, controlsEnabled, overrideCursor,
                   translationsBrowser, loadedEntries, mainQueue, log,
                   uncaught, lastLookup, shown, coreVars>>

\* searchText.returnPressed.connect(self.worker.findTranslations)
ReturnPressed == RequestLookup

\* translateButton.clicked.connect(self.worker.findTranslations)
ClickTranslate == controlsEnabled /\ RequestLookup

\* dictsCombo.currentIndexChanged[str].connect(self.worker.loadDict)
SelectDict(dictName) ==
    /\ controlsEnabled
    /\ dictName # dictsCombo
    /\ Len(workerQueue) < MaxQueue
    /\ dictsCombo' = dictName
    /\ workerQueue' = Append(workerQueue, SlotCall("loadDict", dictName, 0, <<>>))
    /\ UNCHANGED <<searchText, controlsEnabled, overrideCursor,
                   translationsBrowser, loadedEntries, mainQueue, log,
                   uncaught, lookups, lastLookup, shown, coreVars>>

WorkerReady(slot) ==
    /\ workerQueue # <<>>
    /\ Head(workerQueue).slot = slot
    /\ Len(mainQueue) <= MaxQueue

\* Worker.loadDict
loadDict ==
    /\ WorkerReady("loadDict")
    /\ loadedEntries' = load_entries(Head(workerQueue).dictName)
    /\ mainQueue' = mainQueue \o << Signal("started", 0, <<>>),
                                    Signal("ended", 0, <<>>) >>
    /\ workerQueue' = Tail(workerQueue)
    /\ UNCHANGED <<searchText, dictsCombo, controlsEnabled, overrideCursor,
                   translationsBrowser, log, uncaught, lookups, lastLookup,
                   shown, coreVars>>

\* "except Exception": RecursionError is an Exception
caught_AttributeError(exception) == exception = "AttributeError"

caught(exception) == exception \in {"AttributeError", "RecursionError"}

\* Worker.findTranslations
findTranslations ==
    /\ WorkerReady("findTranslations")
    /\ LET id == Head(workerQueue).id
           searchedText == searchText
           result == translate(searchedText, loadedEntries)
           exception == IF result.raised THEN "RecursionError" ELSE "none"
           emitted ==
               IF result.raised
               THEN << Signal("started", id, <<>>) >>
               ELSE << Signal("started", id, <<>>),
                       Signal("translationsReady", id, result.translations),
                       Signal("ended", id, <<>>) >>
       IN  /\ mainQueue' = mainQueue \o emitted
           /\ loadedEntries' = result.entries
           /\ log' = IF result.raised /\ caught(exception)
                     THEN Append(log, [id |-> id, dictionary |-> dictsCombo,
                                       text |-> searchedText])
                     ELSE log
           /\ uncaught' = (uncaught \/ (result.raised /\ ~caught(exception)))
           /\ lastLookup' = [id |-> id, typed |-> Head(workerQueue).typed,
                             searchedText |-> searchedText,
                             entries |-> loadedEntries,
                             raised |-> result.raised,
                             translations |-> result.translations,
                             emitted |-> emitted]
    /\ workerQueue' = Tail(workerQueue)
    /\ UNCHANGED <<searchText, dictsCombo, controlsEnabled, overrideCursor,
                   translationsBrowser, lookups, shown, coreVars>>

MainReady(signal) ==
    /\ mainQueue # <<>>
    /\ Head(mainQueue).signal = signal

\* MainWindow.startProgress
startProgress ==
    /\ MainReady("started")
    /\ controlsEnabled' = FALSE
    /\ overrideCursor' = overrideCursor + 1
    /\ mainQueue' = Tail(mainQueue)
    /\ UNCHANGED <<searchText, dictsCombo, translationsBrowser, loadedEntries,
                   workerQueue, log, uncaught, lookups, lastLookup, shown, coreVars>>

\* MainWindow.endProgress; restoreOverrideCursor pops only a pushed cursor
endProgress ==
    /\ MainReady("ended")
    /\ controlsEnabled' = TRUE
    /\ overrideCursor' = IF overrideCursor > 0 THEN overrideCursor - 1 ELSE 0
    /\ mainQueue' = Tail(mainQueue)
    /\ UNCHANGED <<searchText, dictsCombo, translationsBrowser, loadedEntries,
                   workerQueue, log, uncaught, lookups, lastLookup, shown, coreVars>>

\* MainWindow.showTranslations
showTranslations ==
    /\ MainReady("translationsReady")
    /\ LET translations == Head(mainQueue).translations
       IN  translationsBrowser' =
               IF translations # <<>>
               THEN [kind |-> "translations", id |-> Head(mainQueue).id,
                     html |-> join(<<"<", "h", "r", ">">>, translations),
                     text |-> <<>>]
               ELSE [kind |-> "not found", id |-> Head(mainQueue).id,
                     html |-> <<>>, text |-> searchText]
    /\ shown' = shown \cup {Head(mainQueue).id}
    /\ mainQueue' = Tail(mainQueue)
    /\ UNCHANGED <<searchText, dictsCombo, controlsEnabled, overrideCursor,
                   loadedEntries, workerQueue, log, uncaught, lookups,
                   lastLookup, coreVars>>

(***************************************************************************)
(* Specifications                                                          *)
(***************************************************************************)
\* the application: the user, the worker thread and the main thread
Init == InitCoreIdle /\ InitGui

Next ==
    \/ \E s \in TypedSentences : EditText(s)
    \/ ReturnPressed
    \/ ClickTranslate
    \/ \E i \in 1..Len(dictNames) : SelectDict(dictNames[i])
    \/ loadDict
    \/ findTranslations
    \/ startProgress
    \/ endProgress
    \/ showTranslations

Spec == Init /\ [][Next]_vars

\* the functions of the core, called on every list of entries of the pool
InitCore ==
    /\ entries \in SeqsUpTo(EntryPool, MaxEntries)
    /\ entries0 = entries
    /\ call = NoCall
    /\ InitGui

NextCore ==
    \/ \E s \in Sentences : Call_parse_sentence(s)
    \/ \E i \in 1..MaxEntries, w \in WordLists : Call_have_matches(i, w)
    \/ \E s \in Sentences : Call_translate(s)

SpecCore == InitCore /\ [][NextCore]_vars

\* element_to_text, called again and again on one element of the pool
InitRender ==
    /\ entries \in { <<element>> : element \in ElementPool }
    /\ entries0 = entries
    /\ call = NoCall
    /\ InitGui

NextRender == Call_element_to_text(1)

SpecRender == InitRender /\ [][NextRender]_vars

(***************************************************************************)
(* Properties                                                              *)
(***************************************************************************)
Range(q) == { q[k] : k \in 1..Len(q) }

Contains(s, sub) ==
    \E k \in 1..(Len(s) - Len(sub) + 1) : SubSeq(s, k, k + Len(sub) - 1) = sub

Bold(text) == <<"<", "b", ">">> \o text \o <<"<", "/", "b", ">">>

\* the orth and quote elements below an entry, as a set
RECURSIVE Below(_)
Below(element) ==
    UNION { {element.children[i]} \cup Below(element.children[i]) :
            i \in 1..Len(element.children) }

Headwords(e) == { el \in Below(e) : is_tei(el, orth) \/ is_tei(el, quote) }

\* the entries of a list that have_matches accepts, in the order of the list
Matching(es, words) == SelectSeq(es, LAMBDA e : have_matches(e, words))

\* the text translate makes of one matching entry
Translation(e) == element_to_text(highlight_orths_and_quoutes(e)).text

\* the words of a sentence: its maximal runs of non-whitespace, normalized
Words(sentence) ==
    LET tokens == SelectSeq(re_split(sentence), LAMBDA w : w # <<>>)
    IN  [k \in 1..Len(tokens) |-> normalize_nfc(tokens[k])]

\* the single-space joins of the contiguous non-empty runs of words
Runs(words) ==
    { join(<<" ">>, SubSeq(words, i, j)) :
        i \in 1..Len(words), j \in 1..Len(words) } \ { <<>> }

\* C1: translate never changes the text, tail, tag or children of a node of
\* the entries it is given: after any sequence of calls the entries are as
\* they were handed over.
C1_EntriesUnchanged == entries = entries0

C1_Witness ==
    /\ call.op = "translate"
    /\ Len(call.translations) = 2
    /\ \E i \in 1..Len(entries0) :
           highlight_orths_and_quoutes(entries0[i]) # entries0[i]

\* C2: translate returns one string per entry that have_matches accepts, in
\* the order of the entries, without deduplication, and the empty list
\* without raising when no entry matches.
C2_OnePerMatchInOrder ==
    call.op = "translate" =>
        LET matching == Matching(entries0, parse_sentence(call.sentence))
        IN  /\ matching = <<>> =>
                   ~call.raised /\ call.translations = <<>>
            /\ ~call.raised =>
                   /\ Len(call.translations) = Len(matching)
                   /\ \A k \in 1..Len(matching) :
                          call.translations[k] = Translation(matching[k])

C2_Witness ==
    /\ call.op = "translate"
    /\ ~call.raised
    /\ Len(entries0) = 2
    /\ entries0[1] = entries0[2]
    /\ Len(call.translations) = 2

\* an orth or quote of the entry whose normalized text is a run of the words
Hits(e, sentence) ==
    { el \in Headwords(e) :
        el.text # None /\ normalize_nfc(el.text) \in Runs(Words(sentence)) }

\* C3: an entry with an orth or quote whose normalized text is the join of a
\* contiguous run of the normalized words of the sentence gets one
\* translation, which contains that text in <b></b>; and when no entry has
\* such an element, translate returns an empty sequence.
C3_EndToEnd ==
    (call.op = "translate" /\ ~call.raised) =>
        LET words == parse_sentence(call.sentence)
            rank(i) == Len(Matching(SubSeq(entries0, 1, i), words))
        IN  /\ \A i \in 1..Len(entries0) :
                   \A el \in Hits(entries0[i], call.sentence) :
                       /\ have_matches(entries0[i], words)
                       /\ rank(i) <= Len(call.translations)
                       /\ Contains(call.translations[rank(i)], Bold(el.text))
            /\ (\A i \in 1..Len(entries0) : Hits(entries0[i], call.sentence) = {})
                   => call.translations = <<>>

\* the combinations of words w in the order of the claim: start index
\* ascending, and for one start index the longer slice first
RECURSIVE SlicesFrom(_, _)
SlicesFrom(w, i) ==
    IF i > Len(w) THEN <<>>
    ELSE [k \in 1..(Len(w) - i + 1) |->
             join(<<" ">>, SubSeq(w, i, Len(w) - k + 1))]
         \o SlicesFrom(w, i + 1)

\* C4: for a sentence of N words, leading, trailing and repeated whitespace
\* included, parse_sentence returns the N(N+1)/2 single-space joins of the
\* contiguous slices of the normalized words, by start index ascending and
\* then by length descending.
C4_Combinations ==
    call.op = "parse_sentence" =>
        LET w == Words(call.sentence)
        IN  /\ Len(call.combinations) * 2 = Len(w) * (Len(w) + 1)
            /\ call.combinations = SlicesFrom(w, 1)

\* C5: parse_sentence("") returns an empty sequence.
C5_EmptySentence ==
    (call.op = "parse_sentence" /\ call.sentence = <<>>) =>
        call.combinations = <<>>

\* C6: translate("", entries) returns an empty sequence for every list of
\* entries, those with a whitespace-only orth or quote included.
C6_EmptySentenceNoMatch ==
    (call.op = "translate" /\ call.sentence = <<>>) =>
        ~call.raised /\ call.translations = <<>>

\* C7: have_matches(entry, words) is true exactly when some orth or quote
\* element below the entry has a text whose normalize_nfc value is a member
\* of words; so never for empty words, for an entry without such elements
\* or with absent texts only, and "dog" matches "dog" but not "dogs".
C7_MatchIffHeadword ==
    call.op = "have_matches" =>
        (call.matched <=>
            \E el \in Headwords(entries[call.index]) :
                /\ el.text # None
                /\ normalize_nfc(el.text) \in Range(call.words))

C7_Witness ==
    /\ call.op = "have_matches"
    /\ call.matched
    /\ call.words = << <<"d", "o", "g">> >>
    /\ entries[call.index] = E_dog

C9_OtherEntriesDelivered ==
    lastLookup.id # 0 =>
        \A i \in 1..Len(lastLookup.entries) :
            LET e == lastLookup.entries[i]
            IN  (have_matches(e, parse_sentence(lastLookup.searchedText))
                 /\ ~RecursionError(e))
                    => \E m \in 1..Len(lastLookup.emitted) :
                           /\ lastLookup.emitted[m].signal = "translationsReady"
                           /\ Translation(e)
                                 \in Range(lastLookup.emitted[m].translations)

\* a translation with the markup <br/>, <b> and </b> taken out
RECURSIVE WithoutMarkup(_)
WithoutMarkup(t) ==
    IF t = <<>> THEN <<>>
    ELSE IF startswith(t, <<"<", "b", "r", "/", ">">>)
         THEN WithoutMarkup(SubSeq(t, 6, Len(t)))
    ELSE IF startswith(t, <<"<", "b", ">">>)
         THEN WithoutMarkup(SubSeq(t, 4, Len(t)))
    ELSE IF startswith(t, <<"<", "/", "b", ">">>)
         THEN WithoutMarkup(SubSeq(t, 5, Len(t)))
    ELSE <<Head(t)>> \o WithoutMarkup(Tail(t))

\* C10: a string returned by translate holds no markup other than <br/> and
\* <b>...</b>, whatever the text and tail of the nodes of the entry.
C10_OnlyKnownMarkup ==
    call.op = "translate" =>
        \A k \in 1..Len(call.translations) :
            LET rest == WithoutMarkup(call.translations[k])
            IN  "<" \notin Range(rest) /\ ">" \notin Range(rest)

\* the trimmed text of an element, nothing when it is absent
Trimmed(text) == IF text = None THEN <<>> ELSE strip(text)

\* the renderings of the direct children of an element, in document order
Renderings(element) ==
    [i \in 1..Len(element.children) |->
        element_to_text(element.children[i]).text]

\* C11: the local name of the tag, namespace stripped, puts an element in
\* exactly one of three bins; a complex element (hom, form, sense, etym, re,
\* dictScrap) renders as "<br/>", its trimmed text, the renderings of its
\* direct children joined with ", ", its trimmed tail; a simple one joins
\* with " " and every other with ", ", both without "<br/>". Text and tail
\* are those the pre-formatting pass has left on the element.
C11_ThreeBins ==
    call.op = "element_to_text" =>
        LET element == entries[call.index]
            name == element.tag.name
            lead == Trimmed(element.text)
            trail == Trimmed(element.tail)
        IN  call.text =
                IF name \in complex_elements
                THEN <<"<", "b", "r", "/", ">">> \o lead
                     \o join(<<",", " ">>, Renderings(element)) \o trail
                ELSE IF name \in simple_elements
                THEN lead \o join(<<" ">>, Renderings(element)) \o trail
                ELSE lead \o join(<<",", " ">>, Renderings(element)) \o trail

C11_Witness ==
    /\ call.op = "element_to_text"
    /\ entries0[1] = Group(sense, << Leaf(gloss, <<"a">>), Leaf(gloss, <<"b">>) >>)
    /\ call.text = <<"<", "b", "r", "/", ">", "a", ",", " ", "b">>

\* C12: rendering an element again right after rendering it yields the same
\* string and leaves the tree as the first rendering left it: no second
\* pair of brackets or parentheses is added.
C12_RenderTwice ==
    [][(call.op = "element_to_text" /\ call'.op = "element_to_text")
           => (call'.text = call.text /\ entries' = entries)]_vars

C12_Witness ==
    /\ call.op = "element_to_text"
    /\ call.renders = 2
    /\ entries0[1] = Leaf(pron, <<"k">>)
    /\ entries[1] = Leaf(pron, <<"[", "k", "]">>)
    /\ call.text = <<"[", "k", "]">>

\* the local names the pre-formatting pass is meant for
BracketedNames ==
    { <<"p", "r", "o", "n">>, <<"h", "y", "p", "h">>, <<"s", "y", "l", "l">>,
      <<"s", "t", "r", "e", "s", "s">> }

ParenthesizedNames ==
    { <<"g", "r", "a", "m", "G", "r", "p">>, <<"r", "e">>,
      <<"e", "t", "y", "m">>,
      <<"d", "i", "c", "t", "S", "c", "r", "a", "p">> }

\* C13: pre-formatting touches an element only when its local name is
\* exactly one of pron, hyph, syll, stress or of gramGrp, re, etym,
\* dictScrap; any other element keeps its text and tail, and a simple one
\* without children and tail renders as exactly its trimmed text.
C13_OnlyNamedTagsFormatted ==
    (call.op = "element_to_text" /\ call.renders = 1) =>
        LET before == entries0[call.index]
            after == entries[call.index]
        IN  before.tag.name \notin (BracketedNames \cup ParenthesizedNames) =>
                /\ after.text = before.text
                /\ after.tail = before.tail
                /\ (/\ before.tag.name \in simple_elements
                    /\ before.children = <<>>
                    /\ before.tail = None
                    /\ before.text # None)
                       => call.text = strip(before.text)

\* the number of signals of one name in a sequence of signals
Count(signals, name) ==
    Cardinality({ m \in 1..Len(signals) : signals[m].signal = name })

\* C14: a lookup that emits started also emits exactly one ended, on the
\* path where translate raises too, so that once every queued slot has run
\* the controls are enabled again and no wait cursor is left.
C14_StartedThenEnded ==
    /\ lastLookup.id # 0 =>
           /\ Count(lastLookup.emitted, "started") = 1
           /\ Count(lastLookup.emitted, "ended") = 1
    /\ (workerQueue = <<>> /\ mainQueue = <<>>) =>
           controlsEnabled /\ overrideCursor = 0

\* C15: the text a lookup searches is the text of the field when the user
\* asked for the lookup, and the text named in the "no translations were
\* found for" message of that lookup is the text it searched.
C15_ReportsSearchedText ==
    /\ lastLookup.id # 0 => lastLookup.searchedText = lastLookup.typed
    /\ (translationsBrowser.kind = "not found"
        /\ translationsBrowser.id = lastLookup.id)
           => translationsBrowser.text = lastLookup.searchedText

====
